---- MODULE Spec2Model ----
(***************************************************************************)
(* Model of src/app.py: the TradingView -> Tradovate webhook bridge.       *)
(*                                                                         *)
(* One worker thread handles one POST /webhook request at a time.  The     *)
(* handler is cut at every point where it talks to the broker, so that     *)
(* time may pass and the broker may answer in any way between two steps.   *)
(* Strings that the code inspects character by character (instrument       *)
(* symbols, contract names) are sequences of one-character strings.        *)
(***************************************************************************)
EXTENDS Integers, Sequences, FiniteSets, TLC

\* ------------------------------------------------------------------ bounds
MaxRequests == 2
MaxTicks == 1
\* the threads that call ensure_token at the same time, and the calls of each
NumCallers == 2
MaxCalls == 2

\* --------------------------------------------------------------- constants
\* ensure_token: "now < (self._token_expiry - 60)"
TOKEN_MARGIN_S == 60
\* HTTP_TIMEOUT_S = 15: the longest an outbound call takes
HTTP_TIMEOUT_S == 15
\* ensure_token: "self._token_expiry = now + 23 * 3600"
TOKEN_VALIDITY_S == 23 * 3600

\* A missing header, query parameter or JSON member (Python None)
None == "None"
\* TV_SHARED_SECRET unset: os.getenv("TV_SHARED_SECRET", "")
NoSecret == ""
\* self._token is None or empty: the code only tests its truth value
NoToken == ""
\* self._account_id / a contract id that is None or 0: the code only tests
\* their truth value
NoId == 0

\* ------------------------------------------------------------- characters
Letters == {"A", "B", "C", "D", "E", "F", "G", "H", "I", "J", "K", "L", "M",
            "N", "O", "P", "Q", "R", "S", "T", "U", "V", "W", "X", "Y", "Z",
            "e", "s"}
Digits  == {"0", "1", "2", "3", "4", "5", "6", "7", "8", "9"}

isalpha(ch) == ch \in Letters
isdigit(ch) == ch \in Digits

\* str.upper() on one character
UpperCh(ch) == CASE ch = "e" -> "E" [] ch = "s" -> "S" [] OTHER -> ch
\* str.upper()
Upper(s) == [i \in 1..Len(s) |-> UpperCh(s[i])]

RECURSIVE LStrip(_)
LStrip(s) == IF s # <<>> /\ Head(s) = " " THEN LStrip(Tail(s)) ELSE s
RECURSIVE RStrip(_)
RStrip(s) == IF s # <<>> /\ s[Len(s)] = " " THEN RStrip(SubSeq(s, 1, Len(s) - 1)) ELSE s
\* str.strip()
Strip(s) == RStrip(LStrip(s))

\* str.startswith
StartsWith(s, p) == Len(p) <= Len(s) /\ SubSeq(s, 1, Len(p)) = p

\* ------------------------------------------------------------ risk policy
\* MAX_QTY_PER_ROOT, as (root, cap) pairs
MAX_QTY_TABLE ==
    { << <<"E","S">>, 1 >>,      << <<"M","E","S">>, 10 >>,
      << <<"N","Q">>, 1 >>,      << <<"M","N","Q">>, 6 >>,
      << <<"Y","M">>, 1 >>,      << <<"M","Y","M">>, 10 >>,
      << <<"R","T","Y">>, 1 >>,  << <<"M","2","K">>, 10 >>,
      << <<"6","E">>, 2 >>,      << <<"M","6","E">>, 10 >>,
      << <<"6","J">>, 1 >>,      << <<"M","6","J">>, 6 >>,
      << <<"6","B">>, 2 >>,      << <<"M","6","B">>, 10 >>,
      << <<"6","C">>, 2 >>,      << <<"M","C","D">>, 10 >>,
      << <<"6","A">>, 2 >>,      << <<"M","6","A">>, 10 >>,
      << <<"G","C">>, 1 >>,      << <<"M","G","C">>, 10 >>,
      << <<"S","I">>, 1 >>,      << <<"S","I","L">>, 6 >>,
      << <<"C","L">>, 1 >>,      << <<"M","C","L">>, 10 >>,
      << <<"N","G">>, 1 >>,      << <<"Q","G">>, 6 >>  }

ListedRoots == { e[1] : e \in MAX_QTY_TABLE }

\* MAX_QTY_PER_ROOT[root], for a listed root
MAX_QTY_PER_ROOT(root) == (CHOOSE e \in MAX_QTY_TABLE : e[1] = root)[2]

\* the length of the leading alphabetic block of s (the while loop)
RECURSIVE AlphaPrefixLen(_, _)
AlphaPrefixLen(s, i) ==
    IF i < Len(s) /\ isalpha(s[i + 1]) THEN AlphaPrefixLen(s, i + 1) ELSE i

root_from_instrument(instr) ==
    LET s == Upper(instr)
        i == AlphaPrefixLen(s, 0)
    IN  IF i > 0 THEN SubSeq(s, 1, i) ELSE s

\* enforce_risk with "qty < 0" for "qty <= 0"
RiskCheckZeroPasses(instrument, qty) ==
    IF qty < 0 THEN "Quantity must be > 0"
    ELSE LET root == root_from_instrument(instrument)
         IN  IF root \in ListedRoots /\ qty > MAX_QTY_PER_ROOT(root)
             THEN "Risk guard"
             ELSE "ok"

\* The two checks of enforce_risk that raise ValueError; the contract lookup
\* that follows them is the step RiskResolve of the handler.
\* "ok", or the error raised
RiskCheck(instrument, qty) ==
    IF qty <= 0 THEN "Quantity must be > 0"
    ELSE LET root == root_from_instrument(instrument)
         IN  IF root \in ListedRoots /\ qty > MAX_QTY_PER_ROOT(root)
             THEN "Risk guard"
             ELSE "ok"

\* ----------------------------------------------------------------- inputs
\* int(float(units)): units is given in tenths, the result truncates toward 0
TruncToInt(tenths) ==
    IF tenths >= 0 THEN tenths \div 10 ELSE -((-tenths) \div 10)

\* str(x).lower() on the action and side strings used here
Lower(s) == CASE s = "SELL" -> "sell" [] s = "Short" -> "short" [] OTHER -> s

\* the values of the X-TV-Secret header and of the ?secret= parameter
HeaderSecrets == {"s3cret", "wrong"}
QuerySecrets  == {None, "s3cret"}

\* payload["instrument"] as sent; <<>> is a missing or empty member
BuyInstruments == { <<>>, <<"e","s">>, <<"E","S","Z","5">>, <<"X","X">> }
CloseInstruments == { <<>>, <<" ","e","s">> }

\* payload["units"]: missing, a number (in tenths) or a text that is no number
UnitsValues ==
    { [t |-> "absent", v |-> 0], [t |-> "text", v |-> 0] }
    \cup { [t |-> "num", v |-> n] : n \in {-15, 5, 25} }

NoUnits == [t |-> "absent", v |-> 0]

\* the request bodies: not JSON, JSON that is no object, and JSON objects
Bodies ==
    { [kind |-> k, action |-> "", instrument |-> <<>>, units |-> NoUnits, side |-> ""]
        : k \in {"invalid", "array", "string", "number", "null"} }
    \cup { [kind |-> "object", action |-> "buy", instrument |-> i, units |-> u, side |-> ""]
        : i \in BuyInstruments, u \in UnitsValues }
    \cup { [kind |-> "object", action |-> "SELL", instrument |-> <<"e","s">>, units |-> NoUnits, side |-> ""] }
    \cup { [kind |-> "object", action |-> "close", instrument |-> i, units |-> NoUnits, side |-> sd]
        : i \in CloseInstruments, sd \in {"long", "Short", "both"} }
    \cup { [kind |-> "object", action |-> a, instrument |-> <<>>, units |-> NoUnits, side |-> ""]
        : a \in {"", "hold"} }

\* a body that would trade if it were let through
ProbeBody ==
    [kind |-> "object", action |-> "buy", instrument |-> <<"X","X">>,
     units |-> NoUnits, side |-> ""]

\* every body with a matching header, and every combination of header and
\* query parameter with one body
Requests ==
    [hdr : {"s3cret"}, qry : {None}, body : Bodies]
    \cup [hdr : HeaderSecrets, qry : QuerySecrets, body : {ProbeBody}]

\* how far the clock may move in one step (seconds)
TickSteps == {TOKEN_VALIDITY_S - TOKEN_MARGIN_S - 1, TOKEN_VALIDITY_S - TOKEN_MARGIN_S}

\* ------------------------------------------------------------------ state
VARIABLES
    \* configuration (the environment, fixed at start)
    TV_SHARED_SECRET, TDV_ACCOUNT_ID, credentials,
    \* TradovateClient
    token, token_expiry, account_id, contract_cache, root_to_active, lock,
    \* time.time(), and how often it was advanced
    now, ticks,
    \* the request being handled
    nreq, req, pc, stage, inner,
    \* the handler's and the client's locals
    action, instrument, qty, side, cid, target_cid, body, pos, idx, results,
    \* ensure_token's "now" and what _headers() returned / saw
    etNow, hdrToken, chkNow, chkExp,
    \* the response, and the outbound calls made for this request
    status, errKind, calls,
    \* the threads calling ensure_token concurrently: where each one is
    callers

cfgVars     == <<TV_SHARED_SECRET, TDV_ACCOUNT_ID, credentials>>
sessionVars == <<token, token_expiry, account_id, contract_cache, root_to_active>>
clockVars   == <<now, ticks>>
localVars   == <<action, instrument, qty, side, cid, target_cid, body, pos, idx, results>>
hdrVars     == <<etNow, hdrToken, chkNow, chkExp>>
vars == <<cfgVars, sessionVars, lock, clockVars, nreq, req, pc, stage, inner,
          localVars, hdrVars, status, errKind, calls, callers>>

\* a thread that is not inside ensure_token: the calls it made, ensure_token's
\* local "now", whether a login of its own renewed the token, and how its
\* last call ended
Callers == 1..NumCallers
IdleCaller == [at |-> "idle", n |-> 0, t0 |-> 0, renewed |-> FALSE, last |-> "none"]

NoOrder ==
    [accountId |-> NoId, contractId |-> NoId, action |-> "", orderType |-> "",
     orderQty |-> 0]
NoRequest ==
    [hdr |-> None, qry |-> None,
     body |-> [kind |-> "invalid", action |-> "", instrument |-> <<>>,
               units |-> NoUnits, side |-> ""]]

\* TradovateClient.__init__ and the module's globals
Init ==
    /\ TV_SHARED_SECRET \in {NoSecret, "s3cret"}
    /\ TDV_ACCOUNT_ID \in {NoId, 7}
    /\ credentials \in BOOLEAN
    /\ token = NoToken
    /\ token_expiry = 0
    /\ account_id = TDV_ACCOUNT_ID
    /\ contract_cache = <<>>
    /\ root_to_active = <<>>
    /\ lock = FALSE
    /\ now = 0
    /\ ticks = 0
    /\ nreq = 0
    /\ req = NoRequest
    /\ pc = "idle"
    /\ stage = "none"
    /\ inner = FALSE
    /\ action = ""
    /\ instrument = <<>>
    /\ qty = 0
    /\ side = ""
    /\ cid = NoId
    /\ target_cid = NoId
    /\ body = NoOrder
    /\ pos = <<>>
    /\ idx = 0
    /\ results = 0
    /\ etNow = 0
    /\ hdrToken = NoToken
    /\ chkNow = 0
    /\ chkExp = 0
    /\ status = 0
    /\ errKind = ""
    /\ calls = <<>>
    /\ callers = [t \in Callers |-> IdleCaller]

\* ---------------------------------------------------------- handler exits
\* return jsonify(...), st
Respond(st, kind) ==
    /\ pc' = IF st = 200 THEN "completed" ELSE "failed"
    /\ stage' = "none"
    /\ status' = st
    /\ errKind' = kind

\* An exception raised at the current point of the handler.  Inside
\* enforce_risk's try block it is swallowed and the handler goes on to
\* place_market; elsewhere webhook's except clauses map it to a response.
Raise(exc) ==
    IF pc = "risk_resolve"
    THEN /\ pc' = "place_resolve"
         /\ stage' = "start"
         /\ UNCHANGED <<status, errKind>>
    ELSE IF exc = "HTTPError"
         THEN Respond(502, "http")
         ELSE Respond(400, exc)

\* the keys of the JSON object that webhook returns with status st: those of
\* the entry or close answer, of the HTTPError answer, of the error answers;
\* the 500 of an unhandled exception is the server's own page, not JSON
ResponseKeys(st, kind, act) ==
    IF st = 200
    THEN IF act = "close" THEN {"ok", "type", "side", "instrument", "resp"}
         ELSE {"ok", "type", "action", "instrument", "qty", "resp"}
    ELSE IF st = 502 THEN {"ok", "http", "body"}
    ELSE IF st \in {400, 401} THEN {"ok", "error"}
    ELSE {}

\* ------------------------------------------------------- webhook: the head
\* a request arrives at the idle worker
Receive(r) ==
    /\ pc = "idle"
    /\ nreq < MaxRequests
    /\ nreq' = nreq + 1
    /\ req' = r
    /\ pc' = "received"
    /\ UNCHANGED <<cfgVars, callers, sessionVars, lock, clockVars, stage, inner, localVars,
                   hdrVars, status, errKind, calls>>

\* the response is sent and the handler's frame is gone: the worker waits
\* for the next request
Return ==
    /\ pc \in {"completed", "failed"}
    /\ pc' = "idle"
    /\ req' = NoRequest
    /\ stage' = "none"
    /\ status' = 0
    /\ errKind' = ""
    /\ calls' = <<>>
    /\ action' = ""
    /\ instrument' = <<>>
    /\ qty' = 0
    /\ side' = ""
    /\ cid' = NoId
    /\ target_cid' = NoId
    /\ body' = NoOrder
    /\ pos' = <<>>
    /\ idx' = 0
    /\ results' = 0
    /\ etNow' = 0
    /\ hdrToken' = NoToken
    /\ chkNow' = 0
    /\ chkExp' = 0
    /\ UNCHANGED <<cfgVars, callers, sessionVars, lock, clockVars, nreq, inner>>

\* the shared-secret test with "or" for "and"
SecretRejectedEither(secret, hdr, qry) ==
    secret # NoSecret /\ (hdr # secret \/ qry # secret)

\* the shared-secret test of webhook
SecretRejected(secret, hdr, qry) ==
    secret # NoSecret /\ hdr # secret /\ qry # secret

Authorize ==
    /\ pc = "received"
    /\ IF SecretRejected(TV_SHARED_SECRET, req.hdr, req.qry)
       THEN Respond(401, "unauthorized")
       ELSE /\ pc' = "authorized"
            /\ UNCHANGED <<stage, status, errKind>>
    /\ UNCHANGED <<cfgVars, callers, sessionVars, lock, clockVars, nreq, req, inner,
                   localVars, hdrVars, calls>>

\* request.get_json(force=True, silent=False)
ParseBody ==
    /\ pc = "authorized"
    /\ IF req.body.kind = "invalid"
       THEN Respond(400, "invalid JSON")
       ELSE /\ pc' = "parsed"
            /\ UNCHANGED <<stage, status, errKind>>
    /\ UNCHANGED <<cfgVars, callers, sessionVars, lock, clockVars, nreq, req, inner,
                   localVars, hdrVars, calls>>

\* payload.get("action", ...) up to the first broker call of the branch.
\* payload.get on a payload that is no object raises AttributeError outside
\* the try block: the framework answers 500.
Dispatch ==
    /\ pc = "parsed"
    /\ LET b == req.body
           a == Lower(b.action)
           ins == Upper(Strip(b.instrument))
           q == IF b.units.t = "absent" THEN 1 ELSE TruncToInt(b.units.v)
           sd == Lower(b.side)
           cins == IF b.instrument # <<>> THEN Strip(Upper(b.instrument)) ELSE <<>>
       IN
       IF b.kind # "object"
       THEN /\ Respond(500, "AttributeError")
            /\ UNCHANGED <<action, instrument, qty, side>>
       ELSE
       IF a \in {"buy", "sell"}
       THEN /\ action' = a
            /\ instrument' = ins
            /\ side' = side
            /\ IF ins = <<>>
               THEN Respond(400, "instrument required") /\ qty' = qty
               ELSE IF b.units.t = "text"
               THEN Respond(400, "ValueError") /\ qty' = qty
               ELSE /\ qty' = q
                    /\ IF RiskCheck(ins, q) # "ok"
                       THEN Respond(400, RiskCheck(ins, q))
                       ELSE /\ pc' = "risk_resolve"
                            /\ stage' = "start"
                            /\ UNCHANGED <<status, errKind>>
       ELSE
       IF a = "close"
       THEN /\ action' = a
            /\ side' = sd
            /\ qty' = qty
            /\ IF sd \notin {"long", "short"}
               THEN Respond(400, "close requires side") /\ instrument' = instrument
               ELSE /\ instrument' = cins
                    /\ pc' = IF cins # <<>> THEN "close_resolve" ELSE "close_positions"
                    /\ stage' = IF cins # <<>> THEN "start" ELSE "headers"
                    /\ UNCHANGED <<status, errKind>>
       ELSE /\ action' = a
            /\ Respond(400, "unknown action")
            /\ UNCHANGED <<instrument, qty, side>>
    /\ UNCHANGED <<cfgVars, callers, sessionVars, lock, clockVars, nreq, req, inner,
                   cid, target_cid, body, pos, idx, results, hdrVars, calls>>

\* ------------------------------------------------------ the broker's side
\* a contract as contract/find returns it: id 0 is a missing id, exp 0 a
\* missing or unparsable expiration, aware an expiration with a UTC offset
ESZ5 == <<"E","S","Z","5">>
ESH6 == <<"E","S","H","6">>
cZ5    == [id |-> 101, name |-> ESZ5, exp |-> 82740, aware |-> FALSE]
cH6    == [id |-> 102, name |-> ESH6, exp |-> 400000, aware |-> FALSE]
cNoExp == [id |-> 103, name |-> <<"e","s","M","6">>, exp |-> 0, aware |-> FALSE]
cAware == [id |-> 104, name |-> <<"E","S","U","6">>, exp |-> 500000, aware |-> TRUE]
cMES   == [id |-> 201, name |-> <<"M","E","S","Z","5">>, exp |-> 400000, aware |-> FALSE]
cNoId  == [id |-> NoId, name |-> ESH6, exp |-> 400000, aware |-> FALSE]
NoContract == [id |-> NoId, name |-> <<>>, exp |-> 0, aware |-> FALSE]

\* an outbound call returns ("ok"), is answered with a non-success status
\* ("http_err": raise_for_status raises HTTPError) or times out / cannot
\* connect ("net_err": requests raises a RequestException that is no HTTPError)
Failures(empty) ==
    { [st |-> s, shape |-> "none", items |-> empty] : s \in {"http_err", "net_err"} }

LoginOutcomes ==
    { [st |-> "ok", token |-> t] : t \in {"tokA", NoToken} }
    \cup { [st |-> s, token |-> NoToken] : s \in {"http_err", "net_err"} }

FindOutcomes ==
    { [st |-> "ok", shape |-> "dict", items |-> <<c>>] : c \in {cH6, cNoId} }
    \cup { [st |-> "ok", shape |-> "list", items |-> l]
             : l \in { <<cZ5, cH6>>, <<cMES, cNoExp, cAware>> } }
    \cup Failures(<<>>)

PositionOutcomes ==
    { [st |-> "ok", shape |-> "list", items |-> l]
        : l \in { <<>>,
                  << [contractId |-> 101, netPos |-> -1],
                     [contractId |-> 102, netPos |-> 3],
                     [contractId |-> 102, netPos |-> 0],
                     [contractId |-> 101, netPos |-> 2] >> } }
    \cup { [st |-> "ok", shape |-> "dict", items |-> <<>>] }
    \cup Failures(<<>>)

AccountOutcomes ==
    { [st |-> "ok", shape |-> "list", items |-> l] : l \in { <<>>, <<8, 7>> } }
    \cup Failures(<<>>)

OrderOutcomes == {"ok", "http_err", "net_err"}

ExcOf(st) == IF st = "http_err" THEN "HTTPError" ELSE "RequestException"

\* one entry of the log of outbound calls
CallRec(kind, ok, auth, tok, at, exp, order) ==
    [kind |-> kind, ok |-> ok, auth |-> auth, token |-> tok,
     chkNow |-> at, chkExp |-> exp, order |-> order]

\* ------------------------------------------------------ TradovateClient
\* the test without "self._token and"
TokenFreshAnyToken(tok, exp, t) == t < exp - TOKEN_MARGIN_S

\* the test without the 60 second margin
TokenFreshNoMargin(tok, exp, t) == tok # NoToken /\ t < exp

\* the test at the top of ensure_token
TokenFresh(tok, exp, t) == tok # NoToken /\ t < exp - TOKEN_MARGIN_S

\* the test on the first character alone
is_explicit_month_leading(symbol) == symbol # <<>> /\ isdigit(symbol[1])

\* any(ch.isdigit() for ch in symbol)
is_explicit_month(symbol) == \E i \in 1..Len(symbol) : isdigit(symbol[i])

\* key = instrument.strip().upper()
ResolveKey(instr) == Upper(Strip(instr))

\* the key of _contract_cache: the symbol, or f"{root}->active_id"
CacheKey(key) ==
    IF is_explicit_month(key) THEN key ELSE key \o <<"->active_id">>

\* the loop of _pick_front_month over contracts[i..], with the best so far;
\* comparing an offset-aware expiration with utcnow() raises TypeError
RECURSIVE PickLoop(_, _, _, _)
PickLoop(contracts, i, best, t) ==
    IF i > Len(contracts) THEN [err |-> "", c |-> best]
    ELSE LET c == contracts[i] IN
         IF c.exp = 0 THEN PickLoop(contracts, i + 1, best, t)
         ELSE IF c.aware THEN [err |-> "TypeError", c |-> NoContract]
         ELSE IF c.exp > t /\ (best = NoContract \/ c.exp < best.exp)
              THEN PickLoop(contracts, i + 1, c, t)
              ELSE PickLoop(contracts, i + 1, best, t)

pick_front_month(contracts, t) ==
    LET r == PickLoop(contracts, 1, NoContract, t) IN
    IF r.err # "" THEN r
    ELSE IF r.c # NoContract THEN r
    ELSE [err |-> "", c |-> IF contracts # <<>> THEN contracts[1] ELSE NoContract]

\* [c for c in data if str(c.get("name", "")).upper().startswith(root)]
RECURSIVE FilterRoot(_, _)
FilterRoot(data, root) ==
    IF data = <<>> THEN <<>>
    ELSE IF StartsWith(Upper(Head(data).name), root)
         THEN <<Head(data)>> \o FilterRoot(Tail(data), root)
         ELSE FilterRoot(Tail(data), root)

\* resolve_contract_id after a successful contract/find: what it raises, or
\* the contract id it caches and returns (and, for a root, the contract)
resolve_from_data(key, out, t) ==
    IF is_explicit_month(key)
    THEN IF out.shape = "dict" /\ out.items[1].id # NoId
         THEN [err |-> "", cid |-> out.items[1].id, chosen |-> NoContract]
         ELSE IF out.shape = "list" /\ out.items # <<>>
         THEN IF out.items[1].id = NoId
              THEN [err |-> "KeyError", cid |-> NoId, chosen |-> NoContract]
              ELSE [err |-> "", cid |-> out.items[1].id, chosen |-> NoContract]
         ELSE [err |-> "RuntimeError", cid |-> NoId, chosen |-> NoContract]
    ELSE LET contracts ==
                 IF out.shape = "dict" /\ out.items[1].id # NoId THEN out.items
                 ELSE IF out.shape = "list" THEN FilterRoot(out.items, key)
                 ELSE <<>>
             picked == pick_front_month(contracts, t)
         IN  IF contracts = <<>>
             THEN [err |-> "RuntimeError", cid |-> NoId, chosen |-> NoContract]
             ELSE IF picked.err # ""
             THEN [err |-> picked.err, cid |-> NoId, chosen |-> NoContract]
             ELSE IF picked.c.id = NoId
             THEN [err |-> "RuntimeError", cid |-> NoId, chosen |-> NoContract]
             ELSE [err |-> "", cid |-> picked.c.id, chosen |-> picked.c]

\* the order body with the sides exchanged
EntryOrderInverted(acct, c, a, q) ==
    [accountId |-> acct, contractId |-> c,
     action |-> IF a = "buy" THEN "SELL" ELSE "BUY",
     orderType |-> "Market", orderQty |-> q]

\* the order body of place_market
EntryOrder(acct, c, a, q) ==
    [accountId |-> acct, contractId |-> c,
     action |-> IF a = "buy" THEN "BUY" ELSE "SELL",
     orderType |-> "Market", orderQty |-> q]

\* the tests of the loop without the test of the contract id
ClosesAnyContract(p, sd, target) ==
    \/ sd = "long" /\ p.netPos > 0
    \/ sd = "short" /\ p.netPos < 0

\* the tests of flatten_side's loop on one position: does it get an order?
Closes(p, sd, target) ==
    /\ ~(target # NoId /\ p.contractId # target)
    /\ \/ sd = "long" /\ p.netPos > 0
       \/ sd = "short" /\ p.netPos < 0

\* the order body of flatten_side
CloseOrder(acct, p, sd) ==
    [accountId |-> acct, contractId |-> p.contractId,
     action |-> IF sd = "long" THEN "SELL" ELSE "BUY",
     orderType |-> "Market",
     orderQty |-> IF p.netPos < 0 THEN -p.netPos ELSE p.netPos]

\* the first position at or after i that gets an order, or Len + 1
RECURSIVE NextClose(_, _, _, _)
NextClose(ps, i, sd, target) ==
    IF i > Len(ps) \/ Closes(ps[i], sd, target) THEN i
    ELSE NextClose(ps, i + 1, sd, target)

\* ------------------------------------------------- webhook: broker steps
Goto(p, s) ==
    /\ pc' = p
    /\ stage' = s
    /\ UNCHANGED <<status, errKind>>

ResolveSites == {"risk_resolve", "place_resolve", "close_resolve"}

\* resolve_contract_id returns c to its caller: enforce_risk discards it,
\* place_market builds the order body, flatten_side keeps it as target_cid
ResolveReturn(c) ==
    IF pc = "risk_resolve"
    THEN /\ Goto("place_resolve", "start")
         /\ UNCHANGED <<cid, target_cid, body>>
    ELSE IF pc = "place_resolve"
    THEN /\ Goto("place_order", "headers")
         /\ cid' = c
         /\ body' = EntryOrder(account_id, c, action, qty)
         /\ UNCHANGED target_cid
    ELSE /\ Goto("close_positions", "headers")
         /\ target_cid' = c
         /\ UNCHANGED <<cid, body>>

\* resolve_contract_id up to its contract/find call: a cached id is returned
\* without a call
ResolveStart ==
    /\ pc \in ResolveSites
    /\ stage = "start"
    /\ LET ck == CacheKey(ResolveKey(instrument)) IN
       IF ck \in DOMAIN contract_cache
       THEN ResolveReturn(contract_cache[ck])
       ELSE /\ Goto(pc, "headers")
            /\ UNCHANGED <<cid, target_cid, body>>
    /\ UNCHANGED <<cfgVars, callers, sessionVars, lock, clockVars, nreq, req, inner,
                   action, instrument, qty, side, pos, idx, results, hdrVars, calls>>

\* ensure_token with a lock that its holder can take again
EnsureTokenReentrant ==
    /\ stage = "headers"
    /\ ~lock \/ inner
    /\ IF TokenFresh(token, token_expiry, now)
       THEN /\ Goto(pc, "call")
            /\ hdrToken' = token
            /\ chkNow' = now
            /\ chkExp' = token_expiry
            /\ UNCHANGED <<lock, inner, etNow>>
       ELSE IF ~credentials
       THEN /\ Raise("RuntimeError")
            /\ inner' = FALSE
            /\ UNCHANGED <<lock, hdrVars>>
       ELSE /\ Goto(pc, "login")
            /\ lock' = TRUE
            /\ etNow' = now
            /\ UNCHANGED <<inner, hdrToken, chkNow, chkExp>>
    /\ UNCHANGED <<cfgVars, callers, sessionVars, clockVars, nreq, req, localVars, calls>>

\* _headers(): ensure_token() up to its login call.  "with self._lock" waits
\* while the lock is held; the lock is not reentrant.
EnsureToken ==
    /\ stage = "headers"
    /\ ~lock
    /\ IF TokenFresh(token, token_expiry, now)
       THEN /\ Goto(pc, "call")
            /\ hdrToken' = token
            /\ chkNow' = now
            /\ chkExp' = token_expiry
            /\ UNCHANGED <<lock, inner, etNow>>
       ELSE IF ~credentials
       THEN /\ Raise("RuntimeError")
            /\ inner' = FALSE
            /\ UNCHANGED <<lock, hdrVars>>
       ELSE /\ Goto(pc, "login")
            /\ lock' = TRUE
            /\ etNow' = now
            /\ UNCHANGED <<inner, hdrToken, chkNow, chkExp>>
    /\ UNCHANGED <<cfgVars, callers, sessionVars, clockVars, nreq, req, localVars, calls>>

\* ensure_token from its login call on: POST /v1/auth/accesstokenrequest.
\* With no account id it goes on, the lock still held, to _fetch_account_id.
Login(out) ==
    /\ stage = "login"
    /\ calls' = Append(calls, CallRec("login", out.st = "ok", FALSE, NoToken, 0, 0, NoOrder))
    /\ IF out.st # "ok"
       THEN /\ Raise(ExcOf(out.st))
            /\ lock' = FALSE
            /\ inner' = FALSE
            /\ UNCHANGED <<token, token_expiry, hdrToken, chkNow, chkExp>>
       ELSE /\ token' = out.token
            /\ token_expiry' = etNow + TOKEN_VALIDITY_S
            /\ IF out.token = NoToken
               THEN /\ Raise("RuntimeError")
                    /\ lock' = FALSE
                    /\ inner' = FALSE
                    /\ UNCHANGED <<hdrToken, chkNow, chkExp>>
               ELSE IF account_id = NoId
               THEN /\ Goto(pc, "headers")
                    /\ inner' = TRUE
                    /\ UNCHANGED <<lock, hdrToken, chkNow, chkExp>>
               ELSE /\ Goto(pc, "call")
                    /\ lock' = FALSE
                    /\ hdrToken' = out.token
                    /\ chkNow' = etNow
                    /\ chkExp' = etNow + TOKEN_VALIDITY_S
                    /\ UNCHANGED inner
    /\ UNCHANGED <<cfgVars, callers, account_id, contract_cache, root_to_active, clockVars,
                   nreq, req, localVars, etNow>>

\* which GET is about to be sent
GetKind ==
    IF inner THEN "account_list"
    ELSE IF pc = "close_positions" THEN "position_list"
    ELSE "contract_find"

GetOutcomes(kind) ==
    IF kind = "account_list" THEN AccountOutcomes
    ELSE IF kind = "position_list" THEN PositionOutcomes
    ELSE FindOutcomes

\* self.session.get(...) with the headers built, and what its caller does
\* with the answer: _fetch_account_id (account/list), resolve_contract_id
\* (contract/find) or positions (position/list)
BrokerGet(out) ==
    /\ stage = "call"
    /\ inner \/ pc \in ResolveSites \cup {"close_positions"}
    /\ calls' = Append(calls, CallRec(GetKind, out.st = "ok", TRUE, hdrToken, chkNow, chkExp, NoOrder))
    /\ IF out.st # "ok"
       THEN /\ Raise(ExcOf(out.st))
            /\ lock' = FALSE
            /\ inner' = FALSE
            /\ UNCHANGED <<sessionVars, localVars, hdrVars>>
       ELSE
       IF inner
       THEN \* _fetch_account_id, then the end of ensure_token and of _headers
            IF out.shape # "list" \/ out.items = <<>>
            THEN /\ Raise("RuntimeError")
                 /\ lock' = FALSE
                 /\ inner' = FALSE
                 /\ UNCHANGED <<sessionVars, localVars, hdrVars>>
            ELSE /\ account_id' = out.items[1]
                 /\ lock' = FALSE
                 /\ inner' = FALSE
                 /\ Goto(pc, "call")
                 /\ hdrToken' = token
                 /\ chkNow' = etNow
                 /\ chkExp' = token_expiry
                 /\ UNCHANGED <<token, token_expiry, contract_cache, root_to_active,
                                localVars, etNow>>
       ELSE
       IF pc = "close_positions"
       THEN \* positions(), then the start of flatten_side's loop
            /\ pos' = IF out.shape = "list" THEN out.items ELSE <<>>
            /\ idx' = 1
            /\ results' = 0
            /\ Goto("close_loop", "start")
            /\ UNCHANGED <<sessionVars, lock, inner, action, instrument, qty, side,
                           cid, target_cid, body, hdrVars>>
       ELSE \* resolve_contract_id after contract/find
            LET key == ResolveKey(instrument)
                r == resolve_from_data(key, out, now)
            IN  IF r.err # ""
                THEN /\ Raise(r.err)
                     /\ UNCHANGED <<sessionVars, lock, inner, localVars, hdrVars>>
                ELSE /\ contract_cache' = (CacheKey(key) :> r.cid) @@ contract_cache
                     /\ root_to_active' =
                            IF is_explicit_month(key) THEN root_to_active
                            ELSE (key :> r.chosen) @@ root_to_active
                     /\ ResolveReturn(r.cid)
                     /\ UNCHANGED <<token, token_expiry, account_id, lock, inner,
                                    action, instrument, qty, side, pos, idx, results,
                                    hdrVars>>
    /\ UNCHANGED <<cfgVars, callers, clockVars, nreq, req>>

\* flatten_side's loop up to the next order: positions that get no order are
\* skipped; after the last position the count is returned
CloseLoop ==
    /\ pc = "close_loop"
    /\ stage = "start"
    /\ LET j == NextClose(pos, idx, side, target_cid) IN
       IF j > Len(pos)
       THEN /\ Respond(200, "")
            /\ idx' = j
            /\ UNCHANGED body
       ELSE /\ Goto(pc, "headers")
            /\ idx' = j
            /\ body' = CloseOrder(account_id, pos[j], side)
    /\ UNCHANGED <<cfgVars, callers, sessionVars, lock, clockVars, nreq, req, inner,
                   action, instrument, qty, side, cid, target_cid, pos, results,
                   hdrVars, calls>>

\* POST /v1/order/place with the headers built: place_market's order, or one
\* closing order of flatten_side
OrderPlace(st) ==
    /\ stage = "call"
    /\ ~inner
    /\ pc \in {"place_order", "close_loop"}
    /\ calls' = Append(calls, CallRec("order_place", st = "ok", TRUE, hdrToken, chkNow, chkExp, body))
    /\ IF st # "ok"
       THEN /\ Raise(ExcOf(st))
            /\ UNCHANGED <<idx, results>>
       ELSE IF pc = "place_order"
       THEN /\ Respond(200, "")
            /\ UNCHANGED <<idx, results>>
       ELSE /\ Goto(pc, "start")
            /\ idx' = idx + 1
            /\ results' = results + 1
    /\ UNCHANGED <<cfgVars, callers, sessionVars, lock, clockVars, nreq, req, inner,
                   action, instrument, qty, side, cid, target_cid, body, pos,
                   hdrVars>>

\* time passes: between requests, before a token check and between the check
\* and the call it is for (time passing at any other point of the handler
\* has the effect of time passing at the next of these points)
Tick(d) ==
    /\ ticks < MaxTicks
    /\ pc = "idle" \/ stage \in {"headers", "call"}
    /\ now' = now + d
    /\ ticks' = ticks + 1
    /\ UNCHANGED <<cfgVars, callers, sessionVars, lock, nreq, req, pc, stage, inner,
                   localVars, hdrVars, status, errKind, calls>>

\* the steps of the worker thread
Handler ==
    \/ Authorize
    \/ ParseBody
    \/ Dispatch
    \/ ResolveStart
    \/ EnsureToken
    \/ \E out \in LoginOutcomes : Login(out)
    \/ \E out \in GetOutcomes(GetKind) : BrokerGet(out)
    \/ CloseLoop
    \/ \E st \in OrderOutcomes : OrderPlace(st)
    \/ Return

Next ==
    \/ \E r \in Requests : Receive(r)
    \/ Handler
    \/ \E d \in TickSteps : Tick(d)

Spec == Init /\ [][Next]_vars

\* the worker thread runs whenever it can take a step
FairSpec == Spec /\ WF_vars(Handler)

\* ------------------------------------ ensure_token called concurrently
\* Threads of one process share the client: its token, expiry, account id and
\* lock.  Each thread calls ensure_token up to MaxCalls times.

\* the guard without the lock
LockFreeAlways == TRUE

\* "with self._lock": the lock can be taken
LockFree == ~lock

handlerVars == <<nreq, req, pc, stage, inner, localVars, hdrVars, status, errKind, calls>>

\* ensure_token returns or raises in thread t
CallerDone(t, how, didRenew) ==
    callers' = [callers EXCEPT ![t].at = "idle", ![t].last = how,
                               ![t].renewed = @ \/ didRenew]

\* thread t calls ensure_token and waits for the lock
CallEnsureToken(t) ==
    /\ callers[t].at = "idle"
    /\ callers[t].n < MaxCalls
    /\ callers' = [callers EXCEPT ![t].at = "acquire", ![t].n = @ + 1]
    /\ UNCHANGED <<cfgVars, sessionVars, lock, clockVars, handlerVars>>

\* thread t takes the lock and tests the token: with a fresh token it returns
\* (leaving the with block releases the lock), without credentials
\* _auth_payload raises, else the login call is sent
AcquireLock(t) ==
    /\ callers[t].at = "acquire"
    /\ LockFree
    /\ IF TokenFresh(token, token_expiry, now)
       THEN CallerDone(t, "fresh", FALSE) /\ UNCHANGED lock
       ELSE IF ~credentials
       THEN CallerDone(t, "raised", FALSE) /\ UNCHANGED lock
       ELSE /\ callers' = [callers EXCEPT ![t].at = "login", ![t].t0 = now]
            /\ lock' = TRUE
    /\ UNCHANGED <<cfgVars, sessionVars, clockVars, handlerVars>>

\* the login call of thread t is answered.  With no account id the thread
\* goes on to _fetch_account_id -> _headers -> ensure_token and waits there
\* for the lock that it holds itself.
LoginReturns(t, out) ==
    /\ callers[t].at = "login"
    /\ IF out.st # "ok"
       THEN /\ CallerDone(t, "raised", FALSE)
            /\ lock' = FALSE
            /\ UNCHANGED <<token, token_expiry>>
       ELSE /\ token' = out.token
            /\ token_expiry' = callers[t].t0 + TOKEN_VALIDITY_S
            /\ IF out.token = NoToken
               THEN CallerDone(t, "raised", FALSE) /\ lock' = FALSE
               ELSE IF account_id = NoId
               THEN /\ callers' = [callers EXCEPT ![t].at = "nested", ![t].renewed = TRUE]
                    /\ UNCHANGED lock
               ELSE CallerDone(t, "login", TRUE) /\ lock' = FALSE
    /\ UNCHANGED <<cfgVars, account_id, contract_cache, root_to_active, clockVars,
                   handlerVars>>

\* time passes while a login call is in flight: at most its timeout
CallerTick ==
    /\ ticks < MaxTicks
    /\ \E t \in Callers : callers[t].at = "login"
    /\ now' = now + HTTP_TIMEOUT_S
    /\ ticks' = ticks + 1
    /\ UNCHANGED <<cfgVars, sessionVars, lock, handlerVars, callers>>

TokenNext ==
    \/ \E t \in Callers : CallEnsureToken(t)
    \/ \E t \in Callers : AcquireLock(t)
    \/ \E t \in Callers, out \in LoginOutcomes : LoginReturns(t, out)
    \/ CallerTick

TokenSpec == Init /\ [][TokenNext]_vars

\* ------------------------------------------------------------ properties
Last(sq) == sq[Len(sq)]

Terminal == pc \in {"completed", "failed"}

\* the handler took a step (time passing alone changes neither)
Stepped == <<pc, stage>>' # <<pc, stage>>

\* a contract-month code: a month letter and a year digit
MonthCodes == { <<l, d>> : l \in {"H", "M", "U", "Z"}, d \in {"5", "6"} }

\* the listed roots that the instrument is, or is followed by a month code
RootsOf(instr) ==
    { r \in ListedRoots : instr = r \/ \E mc \in MonthCodes : instr = r \o mc }

\* the buy/sell request in hand, as the handler reads it
IsEntry == req.body.kind = "object" /\ Lower(req.body.action) \in {"buy", "sell"}
ReqInstrument == Upper(Strip(req.body.instrument))
ReqQty == IF req.body.units.t = "absent" THEN 1 ELSE TruncToInt(req.body.units.v)
\* enforce_risk was called for it, and has decided
RiskDecided ==
    /\ pc \notin {"idle", "received", "authorized", "parsed"}
    /\ IsEntry
    /\ ReqInstrument # <<>>
    /\ req.body.units.t # "text"
RiskMessages == {"Quantity must be > 0", "Risk guard"}
RiskRejected == RiskDecided /\ pc = "failed" /\ errKind \in RiskMessages /\ calls = <<>>

\* C1: for an instrument that is a listed root R, or R followed by a month
\* code, enforce_risk rejects exactly the quantities above R's cap (and those
\* below 1); for any other instrument it accepts every quantity >= 1; no
\* order above the cap of its listed root reaches order/place.
C1_RiskCapEnforced ==
    /\ RiskDecided =>
          (RiskRejected <=>
              \/ ReqQty <= 0
              \/ \E r \in RootsOf(ReqInstrument) : ReqQty > MAX_QTY_PER_ROOT(r))
    /\ IsEntry =>
          \A i \in 1..Len(calls) :
              calls[i].kind = "order_place" =>
                  \A r \in RootsOf(ReqInstrument) :
                      calls[i].order.orderQty <= MAX_QTY_PER_ROOT(r)

\* C2: a thread inside ensure_token (it holds the lock) can always take its
\* next step: ensure_token never waits forever.
C2_EnsureTokenTerminates == lock => ENABLED Handler

\* C3: every request that was received is eventually answered: it reaches
\* "completed" or "failed".
C3_EveryRequestAnswered == (pc = "received") ~> Terminal

\* C4: every answer has status 200, 400, 401 or 502, and a body that is not
\* JSON or not a JSON object is answered 400.
C4_StatusSet ==
    Terminal =>
        /\ status \in {200, 400, 401, 502}
        /\ (status # 401 /\ req.body.kind # "object") => status = 400

\* C5: once an outbound call of a request has failed, the request makes no
\* further outbound call and does not end with ok:true.
C5_NoRetries ==
    \A i \in 1..Len(calls) :
        ~calls[i].ok => i = Len(calls) /\ pc # "completed"

\* C6: a request that ends because an outbound call failed (non-success
\* status, timeout or connection failure) is answered 502.
C6_BrokerFailureIs502 ==
    (pc = "failed" /\ calls # <<>> /\ ~Last(calls).ok) => status = 502

\* C7: with a secret configured, a request whose header and query parameter
\* both differ from it is answered 401 in one step that makes no outbound call
\* and changes no session state; every other request proceeds to parsing; 401
\* has no other cause.
C7_SecretGate ==
    /\ [][ (pc = "received" /\ Stepped) =>
             IF /\ TV_SHARED_SECRET # NoSecret
                /\ req.hdr # TV_SHARED_SECRET
                /\ req.qry # TV_SHARED_SECRET
             THEN /\ pc' = "failed"
                  /\ status' = 401
                  /\ calls' = <<>>
                  /\ UNCHANGED <<sessionVars, lock>>
             ELSE pc' = "authorized" ]_vars
    /\ [](status = 401 =>
             /\ calls = <<>>
             /\ TV_SHARED_SECRET # NoSecret
             /\ req.hdr # TV_SHARED_SECRET
             /\ req.qry # TV_SHARED_SECRET)

\* a request is refused 401 after an earlier request had logged in
C7_Witness == status = 401 /\ nreq = 2 /\ token # NoToken /\ account_id # NoId

\* C8: a buy/sell request whose quantity is <= 0, or above the cap of the
\* root the risk guard derives, is answered 400 with the risk guard's message,
\* and no outbound call is made for it.
C8_RiskRejectNoCall ==
    (/\ RiskDecided
     /\ \/ ReqQty <= 0
        \/ LET root == root_from_instrument(ReqInstrument)
           IN  root \in ListedRoots /\ ReqQty > MAX_QTY_PER_ROOT(root))
    => (pc = "failed" /\ status = 400 /\ errKind \in RiskMessages /\ calls = <<>>)

\* the guard refuses a request after an earlier request had logged in
C8_Witness ==
    /\ status = 400
    /\ errKind = "Risk guard"
    /\ nreq = 2
    /\ token # NoToken
    /\ calls = <<>>

\* C9 as stated: ensure_token makes no login call when a token is cached and
\* the time is more than 60 seconds before its expiry, and makes one in every
\* other case.
C9_LoginIffStale ==
    [][ (stage = "headers" /\ Stepped) =>
          IF token # NoToken /\ now < token_expiry - 60
          THEN stage' = "call" /\ calls' = calls
          ELSE stage' = "login" ]_vars

\* C9 as amended: no login call when a token is cached and the time is more
\* than 60 seconds before its expiry; in every other case a login call when
\* the credentials are configured, and an error without any call when not.
C9_LoginIffStaleWithCredentials ==
    /\ [][ (stage = "headers" /\ Stepped) =>
             IF token # NoToken /\ now < token_expiry - 60
             THEN stage' = "call" /\ calls' = calls
             ELSE IF credentials
             THEN stage' = "login"
             ELSE stage' \notin {"login", "call"} /\ calls' = calls ]_vars
    /\ [][ (stage = "login" /\ Stepped) =>
             /\ Len(calls') = Len(calls) + 1
             /\ Last(calls').kind = "login" ]_vars

\* within one request a call went out on the cached token without a login,
\* and a later call needed a login
C9_Witness ==
    /\ Len(calls) >= 2
    /\ calls[1].kind # "login"
    /\ \E i \in 2..Len(calls) : calls[i].kind = "login" /\ calls[i].ok

\* C10: every authenticated call carries a non-empty token that was, at the
\* ensure_token check made for this call, more than 60 seconds before its
\* assumed expiry; the headers of a call are built by a check of its own and
\* used for that one call.
C10_TokenCheckedPerCall ==
    /\ [](\A i \in 1..Len(calls) :
             calls[i].auth =>
                 /\ calls[i].token # NoToken
                 /\ calls[i].chkNow < calls[i].chkExp - 60)
    /\ [][ (calls' # calls /\ calls' # <<>> /\ Last(calls').auth) =>
             /\ stage = "call"
             /\ stage' # "call"
             /\ Last(calls').token = hdrToken ]_vars
    /\ [][ (stage' = "call" /\ Stepped) => stage \in {"headers", "login"} ]_vars

\* two closing orders of one flatten, time passing and a login between them
C10_Witness ==
    /\ pc = "close_loop"
    /\ \E i, j, k \in 1..Len(calls) :
          /\ i < j /\ j < k
          /\ calls[i].kind = "order_place"
          /\ calls[j].kind = "login"
          /\ calls[k].kind = "order_place"
          /\ calls[k].chkNow > calls[i].chkNow

\* the order/place calls of the request in hand, by their place in the log
OrderCalls == { i \in 1..Len(calls) : calls[i].kind = "order_place" }

\* the answers webhook gives to a buy/sell before or in enforce_risk
EarlyErrors == {"instrument required", "ValueError"} \cup RiskMessages

\* the request in hand is a buy/sell that passed validation and the risk guard
PassedRisk ==
    /\ action \in {"buy", "sell"}
    /\ \/ pc \in {"risk_resolve", "place_resolve", "place_order", "completed"}
       \/ pc = "failed" /\ errKind \notin EarlyErrors

\* "units" truncated to an integer, 1 when it is missing
UnitsTruncated ==
    IF req.body.units.t = "absent" THEN 1
    ELSE CHOOSE n \in 0..100 : 10 * n <= req.body.units.v /\ req.body.units.v < 10 * n + 10

\* C11 as stated: a buy/sell request that passed validation and the risk
\* guard has, when it is answered, submitted exactly one order/place call.
C11_ExactlyOneOrder ==
    (Terminal /\ PassedRisk) => Cardinality(OrderCalls) = 1

\* C11 as amended: such a request submits at most one order/place call, and
\* exactly one once the contract is resolved and the headers are built; the
\* order is a Market BUY for "buy" and SELL for "sell", its quantity is
\* "units" truncated (1 when missing), its contract the id resolved for the
\* instrument; the response is 200 exactly when that call succeeded.
C11_OneEntryOrder ==
    /\ [](PassedRisk =>
            /\ Cardinality(OrderCalls) <= 1
            /\ \A i \in OrderCalls :
                  /\ i = Len(calls)
                  /\ calls[i].order.action =
                        (IF Lower(req.body.action) = "buy" THEN "BUY" ELSE "SELL")
                  /\ calls[i].order.orderType = "Market"
                  /\ calls[i].order.orderQty = UnitsTruncated
                  /\ CacheKey(ReqInstrument) \in DOMAIN contract_cache
                  /\ calls[i].order.contractId = contract_cache[CacheKey(ReqInstrument)]
                  /\ calls[i].ok <=> (pc = "completed" /\ status = 200)
            /\ pc = "completed" => OrderCalls # {})
    /\ [][ (pc = "place_order" /\ stage = "call" /\ Stepped) =>
             /\ Len(calls') = Len(calls) + 1
             /\ Last(calls').kind = "order_place" ]_vars

\* a buy of 2.5 units is answered 200 after one Market BUY order for 2
C11_Witness ==
    /\ pc = "completed"
    /\ status = 200
    /\ IsEntry
    /\ req.body.units = [t |-> "num", v |-> 25]
    /\ Cardinality(OrderCalls) = 1
    /\ Last(calls).order.action = "BUY"
    /\ Last(calls).order.orderQty = 2

\* an entry of the log that is an order/place call
IsOrderCall(c) == c.kind = "order_place"

\* the position is one that the close request in hand has to close: its net
\* has the sign of the side, and it is on the instrument's contract if an
\* instrument was given
DueToClose(p) ==
    /\ target_cid = NoId \/ p.contractId = target_cid
    /\ IF side = "long" THEN p.netPos > 0 ELSE p.netPos < 0

\* C12: flatten_side("long") submits one SELL order per position with a
\* positive net, sized that net, and flatten_side("short") one BUY order per
\* position with a negative net, sized its absolute value, in the order of
\* the position list; a position with zero net, with the wrong sign or (when
\* an instrument is given) with another contract id gets no order; the count
\* it returns is the number of orders placed.
C12_FlattenOrders ==
    action = "close" =>
        LET orders == SelectSeq(calls, IsOrderCall)
            due == SelectSeq(pos, DueToClose)
        IN /\ Len(orders) <= Len(due)
           /\ \A i \in 1..Len(orders) :
                 /\ orders[i].order.action = (IF side = "long" THEN "SELL" ELSE "BUY")
                 /\ orders[i].order.orderType = "Market"
                 /\ orders[i].order.contractId = due[i].contractId
                 /\ orders[i].order.orderQty =
                       (IF side = "long" THEN due[i].netPos ELSE 0 - due[i].netPos)
                 /\ orders[i].order.orderQty > 0
           /\ pc = "completed" =>
                 /\ Len(orders) = Len(due)
                 /\ \A i \in 1..Len(orders) : orders[i].ok
                 /\ results = Len(orders)

\* close long on an instrument resolved to contract 101, with four positions:
\* one short, one on another contract, one flat, one long on 101: one order
C12_Witness ==
    /\ pc = "completed"
    /\ action = "close"
    /\ side = "long"
    /\ target_cid = 101
    /\ Len(pos) = 4
    /\ results = 1
    /\ Last(calls).order.action = "SELL"
    /\ Last(calls).order.orderQty = 2

\* the contract that C13 describes for a root and the contracts returned at
\* time t: of those whose name starts with the root, the one with the nearest
\* expiration after t, else the first of them, else none
FrontMonthOf(root, returned, t) ==
    LET cands == { i \in 1..Len(returned) : StartsWith(Upper(returned[i].name), root) }
        future == { i \in cands : returned[i].exp > t }
        first(S) == CHOOSE i \in S : \A j \in S : i <= j
        nearest == { i \in future : \A j \in future : returned[i].exp <= returned[j].exp }
    IN  IF cands = {} THEN NoContract
        ELSE IF future # {} THEN returned[first(nearest)]
        ELSE returned[first(cands)]

\* C13: when contract/find answers a root-only symbol, resolve_contract_id
\* selects, among the returned contracts whose name starts with the root, the
\* one with the nearest expiration strictly after the current time, or the
\* first of them if none expires in the future; it fails if there is no such
\* contract or the chosen one has no id.
C13_FrontMonthSelected ==
    [][ \A out \in FindOutcomes :
          ( /\ out.st = "ok"
            /\ pc \in ResolveSites
            /\ ~inner
            /\ ~is_explicit_month(ResolveKey(instrument))
            /\ BrokerGet(out) )
          => LET root == ResolveKey(instrument)
                 chosen == FrontMonthOf(root, out.items, now)
             IN  IF chosen.id = NoId
                 THEN CacheKey(root) \notin DOMAIN contract_cache'
                 ELSE /\ CacheKey(root) \in DOMAIN contract_cache'
                      /\ contract_cache'[CacheKey(root)] = chosen.id ]_vars

\* the symbol being resolved, and whether it contains a digit
Resolving == pc \in ResolveSites /\ ~inner
SymbolNow == Upper(Strip(instrument))
HasDigit(symbol) == \E i \in 1..Len(symbol) : symbol[i] \in Digits

\* the id of the direct lookup: that of the object returned, or of the first
\* element of the list returned; NoId if there is none
DirectId(out) ==
    IF out.st # "ok" \/ out.items = <<>> THEN NoId ELSE out.items[1].id

FailedInDispatch ==
    /\ pc = "failed"
    /\ status \in {400, 502}
    /\ errKind # "invalid JSON"

\* C15: every failure response (400 or 502) of a request that reached dispatch
\* carries the request's action and instrument, together with the error
\* message or the broker's status and body.
C15_FailureCarriesRequest ==
    FailedInDispatch =>
        LET keys == ResponseKeys(status, errKind, action) IN
        /\ {"action", "instrument"} \subseteq keys
        /\ "error" \in keys \/ {"http", "body"} \subseteq keys

\* the threads whose login call is in flight
LoginsInFlight == { t \in Callers : callers[t].at = "login" }

\* C16: under any interleaving of concurrent callers of ensure_token, at most
\* one login call is in flight at a time, and a caller that takes the lock
\* after another caller's successful renewal sends no login call of its own.
C16_OneLoginInFlight ==
    /\ [](Cardinality(LoginsInFlight) <= 1)
    /\ [][ \A t \in Callers :
             (callers[t].at = "acquire" /\ callers'[t].at = "login")
             => \A u \in Callers \ {t} : ~callers[u].renewed ]_vars

\* both callers were waiting for the lock; one renewed the token, the other
\* then took the lock, found the token fresh and returned without a login
C16_Witness ==
    \E t, u \in Callers :
        /\ t # u
        /\ callers[t].renewed /\ callers[t].last = "login"
        /\ ~callers[u].renewed /\ callers[u].last = "fresh" /\ callers[u].n = 1
        /\ callers[t].n = 1

\* the contracts the broker lists: those of its contract/find answers
ListedContracts ==
    UNION { { out.items[i] : i \in 1..Len(out.items) }
            : out \in { o \in FindOutcomes : o.st = "ok" } }

\* the broker lists a contract of the root that expires after time t
LaterListed(root, t) ==
    \E c \in ListedContracts : StartsWith(Upper(c.name), root) /\ c.exp > t

\* C17: resolve_contract_id never returns, for a root-only symbol, a contract
\* whose expiration has passed while the broker lists a contract of the root
\* that expires later: the contract is the front month as of the call.
C17_FrontMonthAsOfCall ==
    [][ ( /\ Resolving
          /\ ~HasDigit(SymbolNow)
          /\ Stepped
          /\ SymbolNow \in DOMAIN root_to_active'
          /\ pc = "risk_resolve" \/ pc' \notin ResolveSites \cup {"failed"} )
        => LET chosen == root_to_active'[SymbolNow] IN
           (chosen.exp # 0 /\ chosen.exp <= now) => ~LaterListed(SymbolNow, now) ]_vars

\* C19: a close request is all-or-nothing: if it ends with a failure
\* response, no closing order was accepted while it was handled.
C19_CloseAllOrNothing ==
    (action = "close" /\ pc = "failed") =>
        \A i \in 1..Len(calls) : ~(calls[i].kind = "order_place" /\ calls[i].ok)

====
